---- MODULE Spec2Model ----
(***************************************************************************)
(* The codebase indexer (docker/codebase-indexer): the FastAPI service of  *)
(* app.py with its process-wide registry REPO_CONFIGS, the persisted       *)
(* registry file, the Qdrant collections, and the indexing pipeline of     *)
(* utils.py (walk, chunk, embed, clear, upsert).                           *)
(*                                                                         *)
(* Scheduling.  The endpoints are `async def` handlers on one event loop:  *)
(* the code of a handler between two `await`s runs without any other      *)
(* handler in between.  The only awaits are `await run_in_threadpool(      *)
(* index_repository, ...)` (app.py:111, app.py:142): index_repository runs *)
(* in a worker thread, and each of its accesses to shared state (the read  *)
(* of REPO_CONFIGS, the walk of the file system, each request to the       *)
(* embedding service or to Qdrant) is a step of its own that interleaves   *)
(* with the handlers and with the other worker threads.                    *)
(*                                                                         *)
(* The change watcher (watcher.py) is a process of its own: its observer   *)
(* thread adds names to pending_events, its main loop flushes them with    *)
(* blocking POST /reindex requests to the service.                         *)
(***************************************************************************)
EXTENDS Integers, Sequences, FiniteSets, TLC

VARIABLES
    REPO_CONFIGS,       \* app.py:19-24  the in-memory registry: name -> config
    repo_configs_file,  \* app.py:19     the content of repo_configs.json
    qdrant,             \* the vector database: collection name -> (point id -> point)
    tree,               \* the file system: repository root -> its files in os.walk order
    thread,             \* the in-flight add / reindex requests (handler + worker thread locals)
    response,           \* the response an endpoint returned in the step just taken, if any
    removeFailed,       \* history: names whose last remove call failed on collection deletion
    addedOk,            \* history: names registered by an add call that has returned 200
    lastReindex,        \* history: the content the last successful reindex left in its
                        \* collection, and whether it was the first or a later one in a row
    watcher,            \* watcher.py:15-45  the RepoEventHandler and the main loop's position
    now,                \* time.time(), in whole seconds since the watcher started
    eventLog,           \* history: per name, its events and reindex triggers
    createdBy,          \* history: per name, the slot of the add call in flight that wrote
                        \* the name's registry entry and created its collection (0: none)
    chunked             \* a call of chunk_code_file on its own: the file and the result

\* The state of the watcher process
wvars == <<watcher, now, eventLog>>

vars == <<REPO_CONFIGS, repo_configs_file, qdrant, tree, thread, response,
          removeFailed, addedOk, lastReindex, watcher, now, eventLog, createdBy,
          chunked>>

-----------------------------------------------------------------------------
(* Bounds of the model *)

\* number of add / reindex requests that can be in flight at the same time
NumHandlers == 2

Handlers == 1..NumHandlers

\* repository names that requests use
Names == {"a", "b"}

\* directories that exist on disk (os.path.exists is true of them)
RepoPaths == {"/r"}

\* repo_path values of an add request: "" is the default of RepositoryAction.repo_path
ReqPaths == RepoPaths \cup {""}

\* repo_path values of a remove request (rr.py:47-52 sends none)
RemovePaths == {""}

\* language values of an add request: "" is the default of RepositoryAction.language
Languages == {"python", ""}

-----------------------------------------------------------------------------
(* Program constants *)

\* utils.py:346
UpsertBatchSize == 100

\* app.py:190
EmbedBatchSize == 32

\* app.py:159
SearchLimit == 5

-----------------------------------------------------------------------------
(* Dictionaries (Python dict): functions whose domain is the set of keys *)

Del(d, k) == [x \in (DOMAIN d) \ {k} |-> d[x]]

Put(d, k, v) == [x \in (DOMAIN d) \cup {k} |-> IF x = k THEN v ELSE d[x]]

EmptyDict == [x \in {} |-> 0]

Min(a, b) == IF a < b THEN a ELSE b

\* The values REPO_CONFIGS holds: the dict written by add (app.py:95-98) ...
ConfigDict(p, l) == [path |-> p, language |-> l]

\* ... and the bare string written by a failed remove (app.py:128)
ConfigStr(p) == [str |-> p]

IsConfigDict(c) == DOMAIN c = {"path", "language"}

NoConfig == [none |-> TRUE]

-----------------------------------------------------------------------------
(* The file system and the chunker (utils.py) *)

\* The number of top-level functions of the large file big.py (14 bytes each: the
\* text "def f(): pass" and a newline)
BigDefs == 100

\* A source file as chunk_code_file sees it: its extension, its decoded text and the
\* direct children of its syntax-tree root (node type, text of the node's byte range,
\* byte range).  The payload's start_point / end_point are the same nodes' (line,
\* column) pairs and are left out.
SourceFile(f) ==
    CASE f = "a.py" ->
           [ext |-> ".py", segments |-> <<"a.py">>, text |-> "x = 1; def f(): pass",
            size |-> 20,
            children |-> << [type |-> "expression_statement", text |-> "x = 1;",
                             start_byte |-> 0, end_byte |-> 6],
                            [type |-> "function_definition", text |-> "def f(): pass",
                             start_byte |-> 7, end_byte |-> 20] >>]
      [] f = "blank.py" ->
           [ext |-> ".py", segments |-> <<"blank.py">>, text |-> " ", size |-> 1,
            children |-> << >>]
      [] f = "node_modules/m.py" ->
           [ext |-> ".py", segments |-> <<"node_modules", "m.py">>, text |-> "y = 2",
            size |-> 5,
            children |-> << [type |-> "expression_statement", text |-> "y = 2",
                             start_byte |-> 0, end_byte |-> 5] >>]
      [] f = "big.py" ->
           [ext |-> ".py", segments |-> <<"big.py">>, text |-> "def f(): pass (repeated)",
            size |-> 14 * BigDefs,
            children |-> [k \in 1..BigDefs |->
                            [type |-> "function_definition", text |-> "def f(): pass",
                             start_byte |-> 14 * (k - 1),
                             end_byte |-> 14 * k - 1]]]
      [] f = "w.ts" ->
           [ext |-> ".ts", segments |-> <<"w.ts">>, text |-> "function g() {}",
            size |-> 15,
            children |-> << [type |-> "function_declaration", text |-> "function g() {}",
                             start_byte |-> 0, end_byte |-> 15] >>]

\* The states of a repository directory: its files in directory-traversal order
TreeStates ==
    { << >>,
      <<"a.py", "w.ts">>,
      <<"blank.py", "a.py", "node_modules/m.py">> }

\* A repository with more chunks than one upsert sub-batch holds, in the two orders
\* a directory traversal can list it
BigTree == <<"big.py", "a.py">>

BigTreeReordered == <<"a.py", "big.py">>

\* str.strip() is empty
IsBlank(text) == text \in {"", " "}

\* utils.py:19-47
CodeChunk(content, chunk_type, start_byte, end_byte, file_path) ==
    [content |-> content, chunk_type |-> chunk_type, start_byte |-> start_byte,
     end_byte |-> end_byte, file_path |-> file_path]

\* utils.py:153-166  one chunk per direct child that is a function or class definition
NodeChunks(children, file_path) ==
    LET defs == SelectSeq(children,
                          LAMBDA node :
                              node.type \in {"function_definition", "class_definition"})
    IN  [k \in 1..Len(defs) |->
            CodeChunk(defs[k].text,
                      IF defs[k].type = "function_definition" THEN "function" ELSE "class",
                      defs[k].start_byte, defs[k].end_byte, file_path)]

\* utils.py:140-168  the chunks of a decoded and parsed file
ChunkParsed(file, file_path) ==
    << CodeChunk(file.text, "file", 0, file.size, file_path) >>
    \o NodeChunks(file.children, file_path)

\* utils.py:112-168
chunk_code_file(root, f) == ChunkParsed(SourceFile(f), <<root, f>>)

\* utils.py:104-109  (no .gitignore in the model's repositories)
is_ignored(f) ==
    \E k \in 1..Len(SourceFile(f).segments) : SourceFile(f).segments[k] = "node_modules"

\* utils.py:182 and utils.py:204-208
Eligible(f, language) ==
    IF language = "python" THEN SourceFile(f).ext = ".py"
    ELSE SourceFile(f).ext \in {".js", ".jsx", ".ts", ".tsx"}

RECURSIVE process_repository(_, _, _)
\* utils.py:171-218  process_repository_py / process_repository_ts
process_repository(root, files, language) ==
    IF files = << >> THEN << >>
    ELSE LET f == Head(files)
             rest == process_repository(root, Tail(files), language)
         IN  IF Eligible(f, language) /\ ~is_ignored(f)
             THEN chunk_code_file(root, f) \o rest
             ELSE rest

\* utils.py:245-250  the languages process_repositories accepts
SupportedLanguage(language) == language \in {"python", "typescript"}

\* The embedding service: an opaque function of the text
Embedding(text) == [embedding |-> text]

\* app.py:189 and utils.py:263  the texts get_embeddings sends
NonBlankTexts(chunks) ==
    LET kept == SelectSeq(chunks, LAMBDA chunk : ~IsBlank(chunk.content))
    IN  [k \in 1..Len(kept) |-> kept[k].content]

\* utils.py:330  the id of the i-th (0-based) point
PointId(i) == i

\* utils.py:328-343  zip(chunks, embeddings), enumerated
StorePoints(chunks, embs) ==
    [k \in 1..Min(Len(chunks), Len(embs)) |->
        [id |-> PointId(k - 1), vector |-> embs[k], payload |-> chunks[k]]]

\* qclient.upsert: the points of the batch replace the points with the same ids
Upsert(points, batch) ==
    LET ids == {batch[k].id : k \in DOMAIN batch}
    IN  [id \in (DOMAIN points) \cup ids |->
            IF id \in ids
            THEN LET k == CHOOSE j \in DOMAIN batch : batch[j].id = id
                 IN  [vector |-> batch[k].vector, payload |-> batch[k].payload]
            ELSE points[id]]

\* Mutant of ClearPoints: the points are not deleted
ClearPoints_kept(points) == points

\* app.py:193  delete with an empty filter: no point is left
ClearPoints(points) == EmptyDict

\* The stored (payload, vector) pairs of a collection, ids forgotten
Content(points) == {points[id] : id \in DOMAIN points}

-----------------------------------------------------------------------------
(* Parsed files for the chunker on its own: every sequence of up to MaxChildren  *)
(* top-level nodes of the file's grammar.  A node is given by its type and the   *)
(* types of the definitions nested in it; it takes 10 bytes of the file.         *)

\* The number of top-level nodes of a parsed file
MaxChildren == 3

\* tree-sitter-python: a statement, a function, a function with a function defined
\* in its body, a class with a method, a decorated function
PyNodes ==
    { [type |-> "expression_statement", nested |-> << >>],
      [type |-> "function_definition", nested |-> << >>],
      [type |-> "function_definition", nested |-> <<"function_definition">>],
      [type |-> "class_definition", nested |-> <<"function_definition">>],
      [type |-> "decorated_definition", nested |-> <<"function_definition">>] }

\* tree-sitter-typescript (tsx): a statement, a function, a class with a method
TsNodes ==
    { [type |-> "expression_statement", nested |-> << >>],
      [type |-> "function_declaration", nested |-> << >>],
      [type |-> "class_declaration", nested |-> <<"method_definition">>] }

\* The parsed file with the given top-level nodes
ParsedFile(ext, nodes) ==
    [ext |-> ext, segments |-> <<"gen" \o ext>>, text |-> nodes, size |-> 10 * Len(nodes),
     children |-> [k \in 1..Len(nodes) |->
                     [type |-> nodes[k].type, nested |-> nodes[k].nested,
                      text |-> <<k, nodes[k]>>,
                      start_byte |-> 10 * (k - 1), end_byte |-> 10 * k - 1]]]

\* utils.py:182 and 204-208, app.py:186  the files the chunker is called on: .py
\* files parsed with the Python grammar, .ts files parsed with the tsx grammar
ParsedFiles ==
    UNION { {ParsedFile(".py", nodes) : nodes \in [1..len -> PyNodes]}
            \cup {ParsedFile(".ts", nodes) : nodes \in [1..len -> TsNodes]}
            : len \in 0..MaxChildren }

\* No call of the chunker on its own
NoChunking == [file |-> ParsedFile("", << >>), chunks |-> << >>, done |-> FALSE]

-----------------------------------------------------------------------------
(* State *)

\* A handler slot with no request in flight.  The fields after pc are the request
\* (op, repo_name), the locals of index_repository (repo_config, chunks, embs, the
\* loop index i), whether it raised, and two history fields: the external calls the
\* request has made and whether the files changed while a reindex was running
Idle ==
    [pc |-> "idle", op |-> "", repo_name |-> "", repo_config |-> NoConfig,
     chunks |-> << >>, embs |-> << >>, i |-> 0, failed |-> FALSE, calls |-> << >>,
     treeChanged |-> FALSE]

\* Mutant of Submitted: the run starts with the clear of the collection
Submitted_clearFirst(op, n, calls) ==
    [pc |-> "clear", op |-> op, repo_name |-> n, repo_config |-> NoConfig,
     chunks |-> << >>, embs |-> << >>, i |-> 0, failed |-> FALSE, calls |-> calls,
     treeChanged |-> FALSE]

\* A request that has submitted index_repository(repo_name) to the thread pool
\* (app.py:111, app.py:142); `calls` lists the external calls the request has made
Submitted(op, n, calls) ==
    [Idle EXCEPT !.pc = "load", !.op = op, !.repo_name = n, !.calls = calls]

\* The response of an endpoint: status code and detail (or message) as the code
\* writes them, the external calls the request made, and the hits of a search
Response(op, n, status_code, detail, calls, hits) ==
    [op |-> op, repo_name |-> n, status_code |-> status_code, detail |-> detail,
     calls |-> calls, hits |-> hits]

NoResponse == Response("", "", 0, "", << >>, {})

NoReindex == [none |-> TRUE]

\* watcher.py:16-18 and 50  RepoEventHandler() at the start of the watcher (time 0).
\* The fields after last_processed_time are the main loop's position and the
\* locals of process_events: current_time, the names the for loop has yet to
\* reach, the size of the set when the loop started, the name whose request is
\* awaiting its response; `triggered` is history: the names of this flush whose
\* request was answered 200
WatcherInit ==
    [pc |-> "sleep", pending_events |-> {}, last_processed_time |-> 0,
     current_time |-> 0, todo |-> {}, size |-> 0, posting |-> "", triggered |-> {}]

\* History of a name: the time of its latest event (-1: none), the reindex
\* triggers since that event, and, when that event came one second after the one
\* before, the triggers between the two (-1: it did not)
NoEvents == [n \in Names |-> [last |-> 0 - 1, since |-> 0, between |-> 0 - 1]]

\* app.py:18-27  start of the service without a repo_configs.json
Init ==
    /\ REPO_CONFIGS = EmptyDict
    /\ repo_configs_file = EmptyDict
    /\ qdrant = EmptyDict
    /\ tree \in [RepoPaths -> TreeStates]
    /\ thread = [h \in Handlers |-> Idle]
    /\ response = NoResponse
    /\ removeFailed = {}
    /\ addedOk = {}
    /\ lastReindex = NoReindex
    /\ watcher = WatcherInit
    /\ now = 0
    /\ eventLog = NoEvents
    /\ createdBy = [n \in Names |-> 0]
    /\ chunked = NoChunking

\* The handler slots are interchangeable: a new request takes the first free one
FreeSlot(h) ==
    /\ thread[h].pc = "idle"
    /\ \A g \in Handlers : g < h => thread[g].pc # "idle"

\* Another in-flight request works on the same name
OtherInFlight(h, n) ==
    \E g \in Handlers \ {h} : thread[g].pc # "idle" /\ thread[g].repo_name = n

\* app.py:77-83  json.dump(REPO_CONFIGS, f)
save_repo_configs(configs) == configs

\* app.py:178-180  GET /collections
list_collections == DOMAIN REPO_CONFIGS

\* The spec's error kinds, as the status code and detail the code answers with
AlreadyExists(r) == r.status_code = 400 /\ r.detail = "Repository already exists"
InvalidPath(r) == r.status_code = 400 /\ r.detail = "Repository path does not exist"
NotFound(r) == r.status_code = 404 /\ r.detail = "Repository not found"
InvalidCollection(r) == r.status_code = 400 /\ r.detail = "Invalid collection name"
StorageError(r) ==
    r.status_code = 500
    /\ r.detail \in {"Failed to create collection", "Failed to delete collection"}
IndexingError(r) ==
    r.status_code = 500
    /\ r.detail \in {"Failed to index repository", "Failed to reindex repository"}
Success(r) == r.status_code = 200

-----------------------------------------------------------------------------
(* History variables *)

\* The last successful reindex says nothing any more about collection n
Forget(n) ==
    IF lastReindex # NoReindex /\ lastReindex.repo_name = n THEN NoReindex
    ELSE lastReindex

-----------------------------------------------------------------------------
(* POST /repositories, action "add" (app.py:86-118) *)

\* Mutant of AddNameTaken: the name is looked up in the persisted registry
AddNameTaken_persisted(n) == n \in DOMAIN repo_configs_file

\* Mutant of AddNameTaken: the existence check is missing
AddNameTaken_unchecked(n) == FALSE

\* app.py:89
AddNameTaken(n) == n \in DOMAIN REPO_CONFIGS

\* app.py:92  os.path.exists(action.repo_path): the directories on disk are those
\* that tree gives the files of
PathExists(p) == p \in DOMAIN tree

\* qclient.create_collection answers an error for a name that has a collection
CanCreate(n) == n \notin DOMAIN qdrant

\* app.py:88-111  up to the await: the checks, the config, the collection
AddRepository(h, n, p, l) ==
    /\ FreeSlot(h)
    /\ IF AddNameTaken(n)
       THEN /\ response' = Response("add", n, 400, "Repository already exists", << >>, {})
            /\ UNCHANGED <<REPO_CONFIGS, qdrant, thread, addedOk, lastReindex>>
       ELSE IF ~PathExists(p)
       THEN /\ response' = Response("add", n, 400, "Repository path does not exist",
                                    << >>, {})
            /\ UNCHANGED <<REPO_CONFIGS, qdrant, thread, addedOk, lastReindex>>
       ELSE \E ok \in BOOLEAN :
              LET written == Put(REPO_CONFIGS, n, ConfigDict(p, l))
              IN  IF ok /\ CanCreate(n)
                  THEN /\ REPO_CONFIGS' = written
                       /\ qdrant' = Put(qdrant, n, EmptyDict)
                       /\ thread' = [thread EXCEPT
                                        ![h] = Submitted("add", n, <<"create_collection">>)]
                       /\ addedOk' = addedOk \ {n}
                       /\ lastReindex' = Forget(n)
                       /\ response' = NoResponse
                  ELSE /\ REPO_CONFIGS' = Del(written, n)
                       /\ response' = Response("add", n, 500, "Failed to create collection",
                                               <<"create_collection">>, {})
                       /\ addedOk' = addedOk \ {n}
                       /\ UNCHANGED <<qdrant, thread, lastReindex>>
    /\ UNCHANGED <<repo_configs_file, tree, removeFailed, wvars, chunked>>
    /\ createdBy' = IF thread'[h].pc = "load" THEN [createdBy EXCEPT ![n] = h]
                    ELSE createdBy

\* app.py:113  del REPO_CONFIGS[...] raises KeyError for a name that is not there
RollbackKeyError(n) == n \notin DOMAIN REPO_CONFIGS

\* app.py:112-118  after the await: roll back, or save and answer 200
AddReturn(h) ==
    LET n == thread[h].repo_name
        calls == thread[h].calls
    IN  /\ thread[h].pc = "ret"
        /\ thread[h].op = "add"
        /\ thread' = [thread EXCEPT ![h] = Idle]
        /\ IF thread[h].failed
           THEN /\ IF RollbackKeyError(n)
                   THEN /\ response' = Response("add", n, 500, "Internal Server Error",
                                                calls, {})
                        /\ UNCHANGED <<REPO_CONFIGS, qdrant>>
                   ELSE \E ok \in BOOLEAN :
                          /\ REPO_CONFIGS' = Del(REPO_CONFIGS, n)
                          /\ IF ok
                             THEN /\ qdrant' = Del(qdrant, n)
                                  /\ response' =
                                       Response("add", n, 500, "Failed to index repository",
                                                Append(calls, "delete_collection"), {})
                             ELSE /\ qdrant' = qdrant
                                  /\ response' =
                                       Response("add", n, 500, "Internal Server Error",
                                                Append(calls, "delete_collection"), {})
                /\ UNCHANGED <<repo_configs_file, addedOk>>
           ELSE /\ repo_configs_file' = save_repo_configs(REPO_CONFIGS)
                /\ response' = Response("add", n, 200, "added and indexed successfully",
                                        calls, {})
                /\ addedOk' = addedOk \cup {n}
                /\ UNCHANGED <<REPO_CONFIGS, qdrant>>
        /\ lastReindex' = Forget(n)
        /\ UNCHANGED <<tree, removeFailed, wvars, chunked>>
        /\ createdBy' = IF n \in DOMAIN REPO_CONFIGS /\ n \notin DOMAIN REPO_CONFIGS'
                        THEN [createdBy EXCEPT ![n] = 0]
                        ELSE IF ~thread[h].failed /\ createdBy[n] = h
                        THEN [createdBy EXCEPT ![n] = 0]
                        ELSE createdBy

-----------------------------------------------------------------------------
(* POST /repositories, action "remove" (app.py:120-132) *)

\* Mutant of RemoveNameUnknown: the name is looked up among the collections
RemoveNameUnknown_collection(n) == n \notin DOMAIN qdrant

\* app.py:121
RemoveNameUnknown(n) == n \notin DOMAIN REPO_CONFIGS

\* Mutant of RemovedConfigs: the del is missing
RemovedConfigs_kept(n) == REPO_CONFIGS

\* app.py:124  del REPO_CONFIGS[action.repo_name]
RemovedConfigs(n) == Del(REPO_CONFIGS, n)

\* app.py:128  what a failed deletion puts back under the name
RestoredConfig(p) == ConfigStr(p)

\* app.py:120-132  no await: the whole branch is one step
RemoveRepository(n, p) ==
    /\ IF RemoveNameUnknown(n)
       THEN /\ response' = Response("remove", n, 404, "Repository not found", << >>, {})
            /\ removeFailed' = removeFailed \ {n}
            /\ UNCHANGED <<REPO_CONFIGS, repo_configs_file, qdrant, addedOk, lastReindex>>
       ELSE \E ok \in BOOLEAN :
              IF ok
              THEN /\ REPO_CONFIGS' = RemovedConfigs(n)
                   /\ qdrant' = Del(qdrant, n)
                   /\ repo_configs_file' = save_repo_configs(RemovedConfigs(n))
                   /\ response' = Response("remove", n, 200, "removed successfully",
                                           <<"delete_collection">>, {})
                   /\ removeFailed' = removeFailed \ {n}
                   /\ addedOk' = addedOk \ {n}
                   /\ lastReindex' = Forget(n)
              ELSE /\ REPO_CONFIGS' = Put(RemovedConfigs(n), n, RestoredConfig(p))
                   /\ response' = Response("remove", n, 500, "Failed to delete collection",
                                           <<"delete_collection">>, {})
                   /\ removeFailed' = removeFailed \cup {n}
                   /\ lastReindex' = Forget(n)
                   /\ UNCHANGED <<repo_configs_file, qdrant, addedOk>>
    /\ UNCHANGED <<tree, thread, wvars, chunked>>
    /\ createdBy' = IF n \in DOMAIN REPO_CONFIGS /\ n \notin DOMAIN REPO_CONFIGS'
                    THEN [createdBy EXCEPT ![n] = 0]
                    ELSE createdBy

-----------------------------------------------------------------------------
(* index_repository (app.py:183-201), run in a worker thread *)

\* Mutant of Raised: the exception is swallowed and the run counts as done
Raised_swallowed(t) == [t EXCEPT !.pc = "ret", !.failed = FALSE]

\* The thread raised: the await of the handler ends with the exception
Raised(t) == [t EXCEPT !.pc = "ret", !.failed = TRUE]

\* The thread returned
Returned(t) == [t EXCEPT !.pc = "ret", !.failed = FALSE]

\* app.py:184-186 and utils.py:245-250  REPO_CONFIGS[repo_name] raises KeyError for a
\* name that is gone, repo_config["language"] raises TypeError on a string, and
\* process_repositories raises ValueError for a language it does not know
IndexLoad(h) ==
    LET t == thread[h]
        n == t.repo_name
    IN  /\ t.pc = "load"
        /\ thread' = [thread EXCEPT ![h] =
              IF n \notin DOMAIN REPO_CONFIGS THEN Raised(t)
              ELSE IF ~IsConfigDict(REPO_CONFIGS[n]) THEN Raised(t)
              ELSE IF ~SupportedLanguage(REPO_CONFIGS[n].language) THEN Raised(t)
              ELSE [t EXCEPT !.pc = "walk", !.repo_config = REPO_CONFIGS[n]]]
        /\ response' = NoResponse
        /\ UNCHANGED <<REPO_CONFIGS, repo_configs_file, qdrant, tree,
                       removeFailed, addedOk, lastReindex, wvars, createdBy, chunked>>

\* app.py:188-189  process_repositories walks and chunks the repository as it is now
IndexWalk(h) ==
    LET t == thread[h]
        chunks == process_repository(t.repo_config.path, tree[t.repo_config.path],
                                     t.repo_config.language)
    IN  /\ t.pc = "walk"
        /\ thread' = [thread EXCEPT ![h] =
              [t EXCEPT !.pc = "embed", !.chunks = chunks, !.i = 0,
                        !.calls = Append(@, "walk")]]
        /\ response' = NoResponse
        /\ UNCHANGED <<REPO_CONFIGS, repo_configs_file, qdrant, tree,
                       removeFailed, addedOk, lastReindex, wvars, createdBy, chunked>>

\* Mutant of Batch: the slice has no upper end, the rest is sent at once
Batch_rest(seq, i, size) == SubSeq(seq, i + 1, Len(seq))

\* utils.py:269-270  the batch of texts that starts at index i (0-based)
Batch(seq, i, size) == SubSeq(seq, i + 1, Min(i + size, Len(seq)))

\* app.py:190 and utils.py:256-301  get_embeddings: no request when no text is left
\* after the blank ones are dropped, else one request per batch; a failed request
\* raises and the embeddings got so far are lost with the frame
IndexEmbed(h) ==
    LET t == thread[h]
        texts == NonBlankTexts(t.chunks)
        batch == Batch(texts, t.i, EmbedBatchSize)
    IN  /\ t.pc = "embed"
        /\ IF texts = << >>
           THEN thread' = [thread EXCEPT ![h] = [t EXCEPT !.pc = "clear", !.embs = << >>]]
           ELSE \E ok \in BOOLEAN :
                  thread' = [thread EXCEPT ![h] =
                     IF ~ok THEN Raised([t EXCEPT !.calls = Append(@, "embed")])
                     ELSE [t EXCEPT
                             !.embs = @ \o [k \in 1..Len(batch) |-> Embedding(batch[k])],
                             !.calls = Append(@, "embed"),
                             !.i = IF t.i + EmbedBatchSize >= Len(texts) THEN 0
                                   ELSE t.i + EmbedBatchSize,
                             !.pc = IF t.i + EmbedBatchSize >= Len(texts) THEN "clear"
                                    ELSE "embed"]]
        /\ response' = NoResponse
        /\ UNCHANGED <<REPO_CONFIGS, repo_configs_file, qdrant, tree,
                       removeFailed, addedOk, lastReindex, wvars, createdBy, chunked>>

\* app.py:193  qclient.delete with an empty filter; Qdrant answers an error for a
\* collection that does not exist
IndexClear(h) ==
    LET t == thread[h]
        n == t.repo_name
        called == [t EXCEPT !.calls = Append(@, "clear")]
    IN  /\ t.pc = "clear"
        /\ \E ok \in BOOLEAN :
             IF ok /\ n \in DOMAIN qdrant
             THEN /\ qdrant' = [qdrant EXCEPT ![n] = ClearPoints(@)]
                  /\ thread' = [thread EXCEPT ![h] =
                        IF StorePoints(t.chunks, t.embs) = << >> THEN Returned(called)
                        ELSE [called EXCEPT !.pc = "store", !.i = 0]]
             ELSE /\ qdrant' = qdrant
                  /\ thread' = [thread EXCEPT ![h] = Raised(called)]
        /\ response' = NoResponse
        /\ UNCHANGED <<REPO_CONFIGS, repo_configs_file, tree,
                       removeFailed, addedOk, lastReindex, wvars, createdBy, chunked>>

\* app.py:196-201 and utils.py:327-349  store_chunks_multi: one upsert per sub-batch
IndexStore(h) ==
    LET t == thread[h]
        n == t.repo_name
        points == StorePoints(t.chunks, t.embs)
        batch == Batch(points, t.i, UpsertBatchSize)
        called == [t EXCEPT !.calls = Append(@, "upsert")]
    IN  /\ t.pc = "store"
        /\ \E ok \in BOOLEAN :
             IF ok /\ n \in DOMAIN qdrant
             THEN /\ qdrant' = [qdrant EXCEPT ![n] = Upsert(@, batch)]
                  /\ thread' = [thread EXCEPT ![h] =
                        IF t.i + UpsertBatchSize >= Len(points) THEN Returned(called)
                        ELSE [called EXCEPT !.i = t.i + UpsertBatchSize]]
             ELSE /\ qdrant' = qdrant
                  /\ thread' = [thread EXCEPT ![h] = Raised(called)]
        /\ response' = NoResponse
        /\ UNCHANGED <<REPO_CONFIGS, repo_configs_file, tree,
                       removeFailed, addedOk, lastReindex, wvars, createdBy, chunked>>

-----------------------------------------------------------------------------
(* POST /reindex (app.py:135-146) *)

\* Mutant of ReindexNameUnknown: the name is looked up among the collections
ReindexNameUnknown_collection(n) == n \notin DOMAIN qdrant

\* app.py:137
ReindexNameUnknown(n) == n \notin DOMAIN REPO_CONFIGS

\* app.py:136-142  up to the await
ReindexRepository(h, n) ==
    /\ FreeSlot(h)
    /\ IF ReindexNameUnknown(n)
       THEN /\ response' = Response("reindex", n, 404, "Repository not found", << >>, {})
            /\ UNCHANGED <<thread, lastReindex>>
       ELSE /\ thread' = [thread EXCEPT ![h] = Submitted("reindex", n, << >>)]
            /\ lastReindex' = IF OtherInFlight(h, n) THEN Forget(n) ELSE lastReindex
            /\ response' = NoResponse
    /\ UNCHANGED <<REPO_CONFIGS, repo_configs_file, qdrant, tree, removeFailed, addedOk,
                   wvars, createdBy, chunked>>

\* app.py:143-146  after the await
ReindexReturn(h) ==
    LET t == thread[h]
        n == t.repo_name
    IN  /\ t.pc = "ret"
        /\ t.op = "reindex"
        /\ thread' = [thread EXCEPT ![h] = Idle]
        /\ IF t.failed
           THEN /\ response' = Response("reindex", n, 500, "Failed to reindex repository",
                                        t.calls, {})
                /\ lastReindex' = Forget(n)
           ELSE /\ response' = Response("reindex", n, 200, "reindexed successfully",
                                        t.calls, {})
                /\ lastReindex' =
                      IF OtherInFlight(h, n) \/ n \notin DOMAIN qdrant \/ t.treeChanged
                      THEN Forget(n)
                      ELSE [repo_name |-> n, content |-> Content(qdrant[n]),
                            runs |-> IF Forget(n) = NoReindex THEN 2 ELSE 1]
        /\ UNCHANGED <<REPO_CONFIGS, repo_configs_file, qdrant, tree, removeFailed,
                       addedOk, wvars, createdBy, chunked>>

-----------------------------------------------------------------------------
(* POST /search (app.py:149-175) *)

\* Mutant of SearchNameUnknown: the name is looked up among the collections
SearchNameUnknown_collection(n) == n \notin DOMAIN qdrant

\* app.py:151
SearchNameUnknown(n) == n \notin DOMAIN REPO_CONFIGS

\* app.py:156-160  the point sets a top-5 search can return
TopHits(points) ==
    IF Cardinality(DOMAIN points) <= SearchLimit THEN {DOMAIN points}
    ELSE {S \in SUBSET (DOMAIN points) : Cardinality(S) = SearchLimit}

\* app.py:164-173  (similarity, the score of the hit, is left out)
SearchResult(point) ==
    [file_path |-> point.payload.file_path, code |-> point.payload.content,
     chunk_type |-> point.payload.chunk_type]

\* app.py:150-175  no await: get_embeddings and qclient.search block the event loop
Search(n) ==
    /\ IF SearchNameUnknown(n)
       THEN response' = Response("search", n, 400, "Invalid collection name", << >>, {})
       ELSE \E okEmbed \in BOOLEAN, okSearch \in BOOLEAN :
              IF ~okEmbed
              THEN response' = Response("search", n, 500, "Search failed", <<"embed">>, {})
              ELSE IF ~okSearch \/ n \notin DOMAIN qdrant
              THEN response' = Response("search", n, 500, "Search failed",
                                        <<"embed", "search">>, {})
              ELSE \E S \in TopHits(qdrant[n]) :
                     response' = Response("search", n, 200, "", <<"embed", "search">>,
                                          {SearchResult(qdrant[n][id]) : id \in S})
    /\ UNCHANGED <<REPO_CONFIGS, repo_configs_file, qdrant, tree, thread,
                   removeFailed, addedOk, lastReindex, wvars, createdBy, chunked>>

-----------------------------------------------------------------------------
(* The environment *)

\* The files of a repository directory change
FsChange(p) ==
    /\ \E t \in TreeStates \ {tree[p]} : tree' = [tree EXCEPT ![p] = t]
    /\ lastReindex' = NoReindex
    /\ thread' = [h \in Handlers |->
                    IF thread[h].op = "reindex"
                    THEN [thread[h] EXCEPT !.treeChanged = TRUE]
                    ELSE thread[h]]
    /\ response' = NoResponse
    /\ UNCHANGED <<REPO_CONFIGS, repo_configs_file, qdrant, removeFailed, addedOk, wvars,
                   createdBy, chunked>>

\* utils.py:178  os.walk lists the same files of the large repository in another
\* order (the order of a directory traversal is the file system's choice)
WalkOrderChange(p) ==
    /\ tree[p] \in {BigTree, BigTreeReordered}
    /\ tree' = [tree EXCEPT ![p] = IF @ = BigTree THEN BigTreeReordered ELSE BigTree]
    /\ response' = NoResponse
    /\ UNCHANGED <<REPO_CONFIGS, repo_configs_file, qdrant, thread, removeFailed,
                   addedOk, lastReindex, wvars, createdBy, chunked>>

\* utils.py:112-168  chunk_code_file on the file at hand
ChunkCodeFile ==
    /\ ~chunked.done
    /\ chunked' = [chunked EXCEPT
                      !.chunks = ChunkParsed(chunked.file, <<"/r", chunked.file.segments[1]>>),
                      !.done = TRUE]
    /\ UNCHANGED <<REPO_CONFIGS, repo_configs_file, qdrant, tree, thread, response,
                   removeFailed, addedOk, lastReindex, wvars, createdBy>>

-----------------------------------------------------------------------------
(* The change watcher (watcher.py): the observer thread calls on_any_event, the  *)
(* main loop sleeps one second and calls process_events; requests.post returns   *)
(* when the service has answered, which for /reindex is after index_repository   *)

\* watcher.py:30  the debounce window, in seconds
DebounceSeconds == 5

\* watcher.py:56  time.sleep(1)
TickSeconds == 1

\* The watcher is followed for MaxTime seconds
MaxTime == 12

\* The state of the service apart from the response in flight
avars == <<REPO_CONFIGS, repo_configs_file, qdrant, tree, thread,
           removeFailed, addedOk, lastReindex, createdBy, chunked>>

\* history: an event for name n arrives in the second that starts at `now`
LogEvent(n) ==
    [eventLog EXCEPT ![n] =
        [last |-> now, since |-> 0,
         between |-> IF @.last >= 0 /\ now - @.last = 1 THEN @.since ELSE 0 - 1]]

\* history: trigger_reindex(n) is called
LogTrigger(n) == [eventLog EXCEPT ![n].since = Min(@ + 1, 2)]

\* watcher.py:20-26  on_any_event, on the observer thread; n is the name of the
\* directory that holds the changed file
OnAnyEvent(n, is_directory) ==
    /\ watcher.pc # "crashed"
    /\ IF is_directory
       THEN UNCHANGED <<watcher, eventLog>>
       ELSE /\ watcher' = [watcher EXCEPT !.pending_events = @ \cup {n}]
            /\ eventLog' = LogEvent(n)
    /\ UNCHANGED <<now, response, avars>>

\* watcher.py:30  the condition of the flush
FlushDue(current_time) ==
    /\ current_time - watcher.last_processed_time > DebounceSeconds
    /\ watcher.pending_events # {}

\* watcher.py:56-57 and 28-31  time.sleep(1), then process_events up to its loop
Tick ==
    /\ watcher.pc = "sleep"
    /\ now < MaxTime
    /\ now' = now + TickSeconds
    /\ watcher' = IF FlushDue(now')
                  THEN [watcher EXCEPT !.pc = "flush", !.current_time = now',
                                       !.todo = watcher.pending_events,
                                       !.size = Cardinality(watcher.pending_events),
                                       !.triggered = {}]
                  ELSE watcher
    /\ UNCHANGED <<eventLog, response, avars>>

\* A set that has grown since the loop started makes the iterator's next step
\* raise RuntimeError (Set changed size during iteration)
SetChanged == Cardinality(watcher.pending_events) # watcher.size

\* watcher.py:31-32 and 36-39  the loop reaches name n and posts /reindex for it
TriggerReindex(n) ==
    /\ watcher.pc = "flush"
    /\ n \in watcher.todo
    /\ ~SetChanged
    /\ watcher' = [watcher EXCEPT !.pc = "post", !.posting = n, !.todo = @ \ {n}]
    /\ eventLog' = LogTrigger(n)
    /\ response' = NoResponse
    /\ UNCHANGED <<now, avars>>

\* watcher.py:31  the RuntimeError leaves process_events and the main loop (only
\* KeyboardInterrupt is caught, watcher.py:58); the observer is a daemon thread
FlushCrash ==
    /\ watcher.pc = "flush"
    /\ SetChanged
    /\ watcher' = [watcher EXCEPT !.pc = "crashed"]
    /\ UNCHANGED <<now, eventLog, response, avars>>

\* watcher.py:33-34  after the loop
FlushEnd ==
    /\ watcher.pc = "flush"
    /\ watcher.todo = {}
    /\ ~SetChanged
    /\ watcher' = [watcher EXCEPT !.pc = "sleep", !.pending_events = {},
                                  !.last_processed_time = watcher.current_time,
                                  !.current_time = 0, !.size = 0]
    /\ UNCHANGED <<now, eventLog, response, avars>>

\* The service receives the watcher's request (handler slot 1)
RequestDelivered == thread[1].pc # "idle" \/ response # NoResponse

\* watcher.py:39  requests.post blocks: a second passes
Elapse ==
    /\ watcher.pc = "post"
    /\ now < MaxTime
    /\ now' = now + 1
    /\ UNCHANGED <<watcher, eventLog, response, avars>>

\* watcher.py:39-43  the response arrives: 200 or not, the loop goes on
TriggerResponse ==
    /\ watcher.pc = "post"
    /\ response.op = "reindex"
    /\ response.repo_name = watcher.posting
    /\ watcher' = [watcher EXCEPT
                      !.pc = "flush", !.posting = "",
                      !.triggered = IF response.status_code = 200
                                    THEN @ \cup {watcher.posting} ELSE @]
    /\ response' = NoResponse
    /\ UNCHANGED <<now, eventLog, avars>>

\* watcher.py:44-45  RequestException: the request did not reach the service
TriggerError ==
    /\ watcher.pc = "post"
    /\ ~RequestDelivered
    /\ watcher' = [watcher EXCEPT !.pc = "flush", !.posting = ""]
    /\ UNCHANGED <<now, eventLog, response, avars>>

\* watcher.py:39 and app.py:135-142  the service starts to handle the request
WatcherRequest ==
    /\ watcher.pc = "post"
    /\ ~RequestDelivered
    /\ ReindexRepository(1, watcher.posting)

-----------------------------------------------------------------------------
(* Specifications *)

\* The steps of the add or reindex request in handler slot h
AddSteps(h) ==
    \/ \E n \in Names, p \in ReqPaths, l \in Languages : AddRepository(h, n, p, l)
    \/ AddReturn(h)

ReindexSteps(h) ==
    \/ \E n \in Names : ReindexRepository(h, n)
    \/ ReindexReturn(h)

IndexSteps(h) ==
    \/ IndexLoad(h)
    \/ IndexWalk(h)
    \/ IndexEmbed(h)
    \/ IndexClear(h)
    \/ IndexStore(h)

\* The service with every endpoint and NumHandlers indexing requests in flight
Next ==
    \/ \E h \in Handlers : AddSteps(h)
    \/ \E h \in Handlers : ReindexSteps(h)
    \/ \E h \in Handlers : IndexSteps(h)
    \/ \E n \in Names, p \in RemovePaths : RemoveRepository(n, p)
    \/ \E n \in Names : Search(n)
    \/ \E p \in RepoPaths : FsChange(p)

Spec == Init /\ [][Next]_vars

\* The service with every endpoint, where clients keep at most one add or reindex
\* request in flight: remove and search requests and changes of the files still
\* arrive while index_repository runs in its worker thread
NextOne ==
    \/ AddSteps(1)
    \/ ReindexSteps(1)
    \/ IndexSteps(1)
    \/ \E n \in Names, p \in RemovePaths : RemoveRepository(n, p)
    \/ \E n \in Names : Search(n)
    \/ \E p \in RepoPaths : FsChange(p)

SpecOne == Init /\ [][NextOne]_vars

\* The service under concurrent add requests alone
NextAdd ==
    \/ \E h \in Handlers : AddSteps(h)
    \/ \E h \in Handlers : IndexSteps(h)

SpecAdd == Init /\ [][NextAdd]_vars

\* The service under concurrent add requests and remove requests
NextAddRemove ==
    \/ \E h \in Handlers : AddSteps(h)
    \/ \E h \in Handlers : IndexSteps(h)
    \/ \E n \in Names, p \in RemovePaths : RemoveRepository(n, p)

SpecAddRemove == Init /\ [][NextAddRemove]_vars

\* Two directories on disk, each with the one-function file a.py
Roots == {"/r", "/s"}

InitRoots ==
    /\ REPO_CONFIGS = EmptyDict
    /\ repo_configs_file = EmptyDict
    /\ qdrant = EmptyDict
    /\ tree = [p \in Roots |-> <<"a.py">>]
    /\ thread = [h \in Handlers |-> Idle]
    /\ response = NoResponse
    /\ removeFailed = {}
    /\ addedOk = {}
    /\ lastReindex = NoReindex
    /\ watcher = WatcherInit
    /\ now = 0
    /\ eventLog = NoEvents
    /\ createdBy = [n \in Names |-> 0]
    /\ chunked = NoChunking

\* The service under add, reindex, remove and search requests for the one name "a",
\* the add requests naming either directory
NextRoots ==
    \/ \E h \in Handlers, p \in Roots : AddRepository(h, "a", p, "python")
    \/ \E h \in Handlers : AddReturn(h)
    \/ \E h \in Handlers : ReindexRepository(h, "a")
    \/ \E h \in Handlers : ReindexReturn(h)
    \/ \E h \in Handlers : IndexSteps(h)
    \/ RemoveRepository("a", "")
    \/ Search("a")

SpecRoots == InitRoots /\ [][NextRoots]_vars

\* Start of the service, the directory holding the large repository
InitBig ==
    /\ REPO_CONFIGS = EmptyDict
    /\ repo_configs_file = EmptyDict
    /\ qdrant = EmptyDict
    /\ tree = [p \in RepoPaths |-> BigTree]
    /\ thread = [h \in Handlers |-> Idle]
    /\ response = NoResponse
    /\ removeFailed = {}
    /\ addedOk = {}
    /\ lastReindex = NoReindex
    /\ watcher = WatcherInit
    /\ now = 0
    /\ eventLog = NoEvents
    /\ createdBy = [n \in Names |-> 0]
    /\ chunked = NoChunking

\* Add and reindex requests, one in flight at a time, on the large repository
NextBig ==
    \/ AddSteps(1)
    \/ ReindexSteps(1)
    \/ IndexSteps(1)

SpecBig == InitBig /\ [][NextBig]_vars

\* The chunker on its own, on any of the parsed files
InitChunk ==
    /\ REPO_CONFIGS = EmptyDict
    /\ repo_configs_file = EmptyDict
    /\ qdrant = EmptyDict
    /\ tree = [p \in RepoPaths |-> << >>]
    /\ thread = [h \in Handlers |-> Idle]
    /\ response = NoResponse
    /\ removeFailed = {}
    /\ addedOk = {}
    /\ lastReindex = NoReindex
    /\ watcher = WatcherInit
    /\ now = 0
    /\ eventLog = NoEvents
    /\ createdBy = [n \in Names |-> 0]
    /\ chunked \in {[file |-> f, chunks |-> << >>, done |-> FALSE] : f \in ParsedFiles}

NextChunk == ChunkCodeFile

SpecChunk == InitChunk /\ [][NextChunk]_vars

\* A service that runs with the large repository registered as "a" (python, an
\* empty collection: it was added while its directory was empty)
InitOverlap ==
    /\ REPO_CONFIGS = Put(EmptyDict, "a", ConfigDict("/r", "python"))
    /\ repo_configs_file = save_repo_configs(REPO_CONFIGS)
    /\ qdrant = Put(EmptyDict, "a", EmptyDict)
    /\ tree = [p \in RepoPaths |-> BigTree]
    /\ thread = [h \in Handlers |-> Idle]
    /\ response = NoResponse
    /\ removeFailed = {}
    /\ addedOk = {"a"}
    /\ lastReindex = NoReindex
    /\ watcher = WatcherInit
    /\ now = 0
    /\ eventLog = NoEvents
    /\ createdBy = [n \in Names |-> 0]
    /\ chunked = NoChunking

\* Concurrent reindex requests while the embedding service and the vector database
\* answer every request: no run fails
NextOverlap ==
    \/ \E h \in Handlers : ReindexSteps(h)
    \/ \E h \in Handlers : IndexSteps(h) /\ ~thread'[h].failed
    \/ \E p \in RepoPaths : WalkOrderChange(p)

SpecOverlap == InitOverlap /\ [][NextOverlap]_vars

\* A service that runs with repository "a" registered (python, an empty
\* collection: it was added while its directory was empty, the files came later)
\* when the watcher starts
InitWatch ==
    /\ REPO_CONFIGS = Put(EmptyDict, "a", ConfigDict("/r", "python"))
    /\ repo_configs_file = save_repo_configs(REPO_CONFIGS)
    /\ qdrant = Put(EmptyDict, "a", EmptyDict)
    /\ tree = [p \in RepoPaths |-> <<"a.py", "w.ts">>]
    /\ thread = [h \in Handlers |-> Idle]
    /\ response = NoResponse
    /\ removeFailed = {}
    /\ addedOk = {"a"}
    /\ lastReindex = NoReindex
    /\ watcher = WatcherInit
    /\ now = 0
    /\ eventLog = NoEvents
    /\ createdBy = [n \in Names |-> 0]
    /\ chunked = NoChunking

\* The watcher and the service it posts to: the watcher is the only client
NextWatch ==
    \/ \E n \in Names, is_directory \in BOOLEAN : OnAnyEvent(n, is_directory)
    \/ Tick
    \/ \E n \in Names : TriggerReindex(n)
    \/ FlushCrash
    \/ FlushEnd
    \/ Elapse
    \/ TriggerResponse
    \/ TriggerError
    \/ WatcherRequest
    \/ IndexSteps(1)
    \/ ReindexReturn(1)

SpecWatch == InitWatch /\ [][NextWatch]_vars

-----------------------------------------------------------------------------
(* Properties *)

\* An add call is in progress in slot h (remove calls take one step)
InAdd(h) == thread[h].pc # "idle" /\ thread[h].op = "add"

Registered(n) == n \in DOMAIN REPO_CONFIGS

HasCollection(n) == n \in DOMAIN qdrant

\* C1: whenever no add or remove call is in progress, a name is registered if and
\* only if a collection of that name exists, except for a name whose last remove
\* call failed on the deletion of the collection.
C1_RegistryCollectionInvariant ==
    (\A h \in Handlers : ~InAdd(h))
    => \A n \in Names : (Registered(n) <=> HasCollection(n)) \/ n \in removeFailed

\* C2: when add has created the collection and indexing then fails, add answers
\* IndexingError and on return the name is not registered and has no collection.
C2_AddCompensation ==
    [][\A h \in Handlers :
          (thread[h].pc = "ret" /\ thread[h].op = "add" /\ thread[h].failed
           /\ thread'[h].pc = "idle")
          => /\ IndexingError(response')
             /\ thread[h].repo_name \notin DOMAIN REPO_CONFIGS'
             /\ thread[h].repo_name \notin DOMAIN qdrant']_vars

\* C3: when remove of a registered name fails on the deletion of the collection, it
\* answers StorageError and the name's registry entry is the configuration that was
\* registered before the call.
C3_RemoveFailureRestoresConfig ==
    [][\A n \in Names, p \in RemovePaths :
          (Registered(n) /\ RemoveRepository(n, p) /\ response'.status_code # 200)
          => /\ StorageError(response')
             /\ n \in DOMAIN REPO_CONFIGS'
             /\ REPO_CONFIGS'[n] = REPO_CONFIGS[n]]_vars

\* C4: an add call for a registered name answers AlreadyExists (400), makes no
\* external call, starts no indexing, and leaves the registry, the persisted registry
\* and the collections with their points as they were.
C4_AddDuplicateRejected ==
    [][\A h \in Handlers, n \in Names, p \in ReqPaths, l \in Languages :
          (Registered(n) /\ AddRepository(h, n, p, l))
          => /\ AlreadyExists(response')
             /\ response'.calls = << >>
             /\ UNCHANGED <<REPO_CONFIGS, repo_configs_file, qdrant, thread>>]_vars

\* C4 witness: a duplicate add was rejected while the first call's points are stored
C4_Witness ==
    /\ response.op = "add"
    /\ AlreadyExists(response)
    /\ Registered(response.repo_name)
    /\ HasCollection(response.repo_name)
    /\ qdrant[response.repo_name] # EmptyDict

\* A step in which an add call for name n starts
AddCalled(n) ==
    \E h \in Handlers, p \in ReqPaths, l \in Languages : AddRepository(h, n, p, l)

\* C5: when remove answers success the name is not registered and has no
\* collection, and while the name is neither registered nor has a collection, only
\* the start of an add call for it changes that.
C5_RemovedStaysRemoved ==
    [][\A n \in Names :
          /\ (response'.op = "remove" /\ response'.repo_name = n /\ Success(response'))
             => (n \notin DOMAIN REPO_CONFIGS' /\ n \notin DOMAIN qdrant')
          /\ (~Registered(n) /\ ~HasCollection(n) /\ ~AddCalled(n))
             => (n \notin DOMAIN REPO_CONFIGS' /\ n \notin DOMAIN qdrant')]_vars

\* C5 witness: remove succeeded while an add call for the same name is in flight
C5_Witness ==
    /\ response.op = "remove"
    /\ Success(response)
    /\ ~Registered(response.repo_name)
    /\ ~HasCollection(response.repo_name)
    /\ \E h \in Handlers : InAdd(h) /\ thread[h].repo_name = response.repo_name

\* C6: remove of a name that is not registered answers NotFound (404), attempts no
\* collection deletion, and leaves the registry, the persisted registry and every
\* collection as they were.
C6_RemoveUnknownNotFound ==
    [][\A n \in Names, p \in RemovePaths :
          (~Registered(n) /\ RemoveRepository(n, p))
          => /\ NotFound(response')
             /\ response'.calls = << >>
             /\ UNCHANGED <<REPO_CONFIGS, repo_configs_file, qdrant>>]_vars

\* C6 witness: remove answered NotFound for a name that still has a collection
C6_Witness ==
    /\ response.op = "remove"
    /\ NotFound(response)
    /\ ~Registered(response.repo_name)
    /\ HasCollection(response.repo_name)

\* C7: search on a name that is not registered answers InvalidCollection (400) and
\* makes neither an embedding call nor a vector-database search.
C7_SearchUnknownInvalid ==
    [][\A n \in Names :
          (~Registered(n) /\ Search(n))
          => /\ InvalidCollection(response')
             /\ response'.calls = << >>
             /\ response'.hits = {}]_vars

\* C7 witness: search answered InvalidCollection for a name that still has a
\* collection, while another name is registered
C7_Witness ==
    /\ response.op = "search"
    /\ InvalidCollection(response)
    /\ ~Registered(response.repo_name)
    /\ HasCollection(response.repo_name)
    /\ DOMAIN REPO_CONFIGS # {}

\* The (payload, vector) pairs a run of index_repository means to store
RunContent(t) ==
    LET points == StorePoints(t.chunks, t.embs)
    IN  {[vector |-> points[k].vector, payload |-> points[k].payload] :
            k \in DOMAIN points}

AddsInFlight(n) == {h \in Handlers : InAdd(h) /\ thread[h].repo_name = n}

\* C9: of concurrent add calls for one name at most one is past the existence check
\* with a collection created, and an add call that runs while another add call for
\* the name is in flight answers AlreadyExists and creates no collection.
C9_AtomicCheckAndCreate ==
    /\ [](\A n \in Names : Cardinality(AddsInFlight(n)) <= 1)
    /\ [][\A h \in Handlers, n \in Names, p \in ReqPaths, l \in Languages :
             (AddsInFlight(n) # {} /\ AddRepository(h, n, p, l))
             => /\ AlreadyExists(response')
                /\ UNCHANGED <<REPO_CONFIGS, qdrant, thread>>]_vars

\* C9 witness: an add call was rejected while another add call for the name is
\* still indexing
C9_Witness ==
    /\ response.op = "add"
    /\ AlreadyExists(response)
    /\ AddsInFlight(response.repo_name) # {}

\* C10: the persisted registry holds only names registered by an add call that has
\* returned successfully.
C10_OnlySuccessfulAddPersists ==
    DOMAIN repo_configs_file \subseteq addedOk

\* C11: when two events for one name arrive one second apart, the watcher calls
\* trigger_reindex for that name at most once for the two of them (counting the
\* triggers between the two events and after the second).
C11_DebounceCoalescing ==
    \A n \in Names :
        eventLog[n].between >= 0 => eventLog[n].between + eventLog[n].since <= 1

\* C12: the watcher calls trigger_reindex for a name only when the latest event for
\* that name is more than 5 seconds old.
C12_QuietPeriod ==
    [][\A n \in Names :
          TriggerReindex(n) => now - eventLog[n].last > DebounceSeconds]_vars

\* C13: a name leaves pending_events only when a reindex request for it has been
\* answered 200 in the flush that removes it; after a failed request it stays.
C13_PendingUntilTriggered ==
    [][\A n \in Names :
          (n \in watcher.pending_events /\ n \notin watcher'.pending_events)
          => n \in watcher.triggered]_vars

\* C14: the watcher does not wait for the reindex it triggered: while that reindex
\* runs in the service, the watcher is not blocked in its request.
C14_FireAndForget ==
    \A h \in Handlers :
        (thread[h].pc # "idle" /\ thread[h].op = "reindex") => watcher.pc # "post"

\* The place of a step in the order walk, embed, clear, upsert
StepRank(c) ==
    CASE c = "walk" -> 1 [] c = "embed" -> 2 [] c = "clear" -> 3 [] c = "upsert" -> 4

\* C15 as stated: a reindex run clears the collection first: its walk and its
\* embedding calls come after its clear.
C15_ClearFirst ==
    \A h \in Handlers :
        thread[h].op = "reindex"
        => \A i \in DOMAIN thread[h].calls :
              thread[h].calls[i] \in {"walk", "embed"}
              => \E j \in 1..(i - 1) : thread[h].calls[j] = "clear"

\* C15 (amended): a reindex run walks and chunks first, then embeds, then clears
\* the collection, then upserts: one walk, at the start; every embedding call
\* before the one clear; every upsert after it.
C15_WalkEmbedClearUpsert ==
    \A h \in Handlers :
        thread[h].op = "reindex"
        => LET calls == thread[h].calls
           IN  /\ calls # << >> => calls[1] = "walk"
               /\ \A i, j \in DOMAIN calls :
                     i < j => /\ StepRank(calls[i]) <= StepRank(calls[j])
                              /\ calls[i] \in {"walk", "clear"} => calls[i] # calls[j]

\* C15 witness: a reindex that made all four kinds of steps has answered 200
C15_Witness ==
    /\ response.op = "reindex"
    /\ Success(response)
    /\ response.calls = <<"walk", "embed", "clear", "upsert">>

\* C16: when an add or reindex call returns successfully, every point of the
\* collection carries the vector the embedding service returns for the point's own
\* payload content, and the collection has one point for every non-blank chunk of
\* the run.
C16_ChunkVectorAlignment ==
    [][\A h \in Handlers :
          LET t == thread[h]
              n == t.repo_name
          IN  (/\ t.pc = "ret" /\ ~t.failed
               /\ thread'[h].pc = "idle"
               /\ n \in DOMAIN qdrant')
              => /\ \A id \in DOMAIN qdrant'[n] :
                       qdrant'[n][id].vector = Embedding(qdrant'[n][id].payload.content)
                 /\ Cardinality(DOMAIN qdrant'[n]) = Len(NonBlankTexts(t.chunks))]_vars

\* C17: a reindex run whose embedding call fails on some batch ends there, the
\* call answers IndexingError, the run has made no clear and no upsert, and no
\* step of the run up to and including its embedding calls, nor its return, changes
\* the points of any collection.
C17_EmbeddingAllOrNothing ==
    [][\A h \in Handlers :
          LET t == thread[h]
          IN  t.op = "reindex"
              => /\ (t.pc \in {"load", "walk", "embed"} /\ thread'[h] # t)
                    => qdrant' = qdrant
                 /\ (t.pc = "embed" /\ thread'[h].pc = "ret")
                    => /\ thread'[h].failed
                       /\ \A i \in DOMAIN t.calls : t.calls[i] \notin {"clear", "upsert"}
                 /\ (t.pc = "ret" /\ t.failed /\ thread'[h].pc = "idle")
                    => (IndexingError(response') /\ qdrant' = qdrant)]_vars

\* C17 witness: a reindex failed on its second embedding batch and the collection
\* still holds the points of the add
C17_Witness ==
    /\ response.op = "reindex"
    /\ IndexingError(response)
    /\ response.calls = <<"walk", "embed", "embed">>
    /\ response.repo_name \in DOMAIN qdrant
    /\ Cardinality(DOMAIN qdrant[response.repo_name]) > UpsertBatchSize

\* The number of upsert requests a run has made
Upserts(t) == Cardinality({i \in DOMAIN t.calls : t.calls[i] = "upsert"})

\* The first k sub-batches of a run's points, as a collection holds them
StoredBatches(t, k) ==
    LET points == StorePoints(t.chunks, t.embs)
    IN  [id \in 0..(Min(k * UpsertBatchSize, Len(points)) - 1) |->
            [vector |-> points[id + 1].vector, payload |-> points[id + 1].payload]]

\* C18: each upsert request of a run adds the next at most 100 points in index
\* order to what the run has stored; a failed request stores nothing and ends the
\* run; reindex then answers IndexingError and add rolls back (the config is gone,
\* the deletion of the collection was requested), and a collection that is left
\* holds exactly the sub-batches stored before the failure.
C18_UpsertSubBatches ==
    [][\A h \in Handlers :
          LET t == thread[h]
              n == t.repo_name
          IN  /\ (t.pc = "store" /\ thread'[h].calls # t.calls)
                 => IF thread'[h].failed
                    THEN thread'[h].pc = "ret" /\ qdrant' = qdrant
                    ELSE qdrant'[n] = StoredBatches(t, Upserts(t) + 1)
              /\ (/\ t.pc = "ret" /\ t.failed /\ thread'[h].pc = "idle"
                  /\ t.calls[Len(t.calls)] = "upsert")
                 => /\ n \in DOMAIN qdrant' => qdrant'[n] = StoredBatches(t, Upserts(t) - 1)
                    /\ IF t.op = "reindex"
                       THEN IndexingError(response') /\ n \in DOMAIN qdrant'
                       ELSE /\ response'.status_code = 500
                            /\ n \notin DOMAIN REPO_CONFIGS'
                            /\ response'.calls[Len(response'.calls)] = "delete_collection"]_vars

\* C18 witness: a reindex failed on its second sub-batch and the collection holds
\* the first one
C18_Witness ==
    /\ response.op = "reindex"
    /\ IndexingError(response)
    /\ response.calls[Len(response.calls)] = "upsert"
    /\ response.repo_name \in DOMAIN qdrant
    /\ Cardinality(DOMAIN qdrant[response.repo_name]) = UpsertBatchSize

\* A step of the reindex call in slot h: its start or rejection, a step of its run
\* of index_repository, or its return
ReindexStep(h) ==
    \/ \E n \in Names : ReindexRepository(h, n)
    \/ thread[h].op = "reindex" /\ IndexSteps(h)
    \/ ReindexReturn(h)

\* C19: no step of a reindex call changes the registry or the persisted registry,
\* creates or deletes a collection; a reindex of a name that is not registered
\* answers NotFound, starts no run and makes no external call.
C19_ReindexLeavesRegistry ==
    [][\A h \in Handlers :
          /\ ReindexStep(h)
             => /\ UNCHANGED <<REPO_CONFIGS, repo_configs_file>>
                /\ DOMAIN qdrant' = DOMAIN qdrant
          /\ \A n \in Names :
                (~Registered(n) /\ ReindexRepository(h, n))
                => /\ NotFound(response')
                   /\ response'.calls = << >>
                   /\ UNCHANGED <<thread, qdrant>>]_vars

\* C19 witness: a reindex was rejected with NotFound for a name that still has a
\* collection, while another name is registered
C19_Witness ==
    /\ response.op = "reindex"
    /\ NotFound(response)
    /\ ~Registered(response.repo_name)
    /\ HasCollection(response.repo_name)
    /\ DOMAIN REPO_CONFIGS # {}

\* C20: when reindex runs of one unchanged repository have overlapped and all have
\* finished successfully, then, once the last has returned, the collection holds
\* the repository's chunks, each of them once and nothing else.
C20_OverlapConverges ==
    (/\ \A h \in Handlers : thread[h].pc = "idle"
     /\ response.op = "reindex"
     /\ Success(response))
    => LET n == response.repo_name
           config == REPO_CONFIGS[n]
           chunks == process_repository(config.path, tree[config.path], config.language)
       IN  /\ {qdrant[n][id].payload : id \in DOMAIN qdrant[n]}
                = {chunks[k] : k \in DOMAIN chunks}
           /\ Cardinality(DOMAIN qdrant[n]) = Len(chunks)

\* C21: the rollback of a failed add call deletes a registry entry or a collection
\* only if this call created it (not those of a later add call of the name, made
\* after a remove), and when the entry is gone already it still answers
\* IndexingError.
C21_CompensationScoped ==
    [][\A h \in Handlers :
          LET t == thread[h]
              n == t.repo_name
          IN  (t.pc = "ret" /\ t.op = "add" /\ t.failed /\ thread'[h].pc = "idle")
              => /\ createdBy[n] # h
                    => /\ n \in DOMAIN REPO_CONFIGS
                          => (n \in DOMAIN REPO_CONFIGS' /\ REPO_CONFIGS'[n] = REPO_CONFIGS[n])
                       /\ n \in DOMAIN qdrant
                          => (n \in DOMAIN qdrant' /\ qdrant'[n] = qdrant[n])
                 /\ n \notin DOMAIN REPO_CONFIGS => IndexingError(response')]_vars

\* C22: no change event is lost: a name that has had an event and no reindex
\* trigger since is still in pending_events, whatever the main loop was doing when
\* the event arrived, and the main loop is never ended by an event.
C22_NoLostEvents ==
    /\ watcher.pc # "crashed"
    /\ \A n \in Names :
          (eventLog[n].last >= 0 /\ eventLog[n].since = 0)
          => n \in watcher.pending_events

\* What the grammars call the definition of a function and of a class
IsFunctionNode(node) == node.type \in {"function_definition", "function_declaration"}

IsClassNode(node) == node.type \in {"class_definition", "class_declaration"}

\* C23: the chunks of a file are one file chunk that covers the whole decoded text,
\* then one function or class chunk for each top-level node that is a function or
\* class definition, in source order, and nothing else (nothing for nested
\* definitions or for nodes of other types).
C23_ChunkStructure ==
    chunked.done
    => LET file == chunked.file
           defs == SelectSeq(file.children,
                             LAMBDA node : IsFunctionNode(node) \/ IsClassNode(node))
           chunks == chunked.chunks
       IN  /\ Len(chunks) = 1 + Len(defs)
           /\ chunks[1].chunk_type = "file"
           /\ chunks[1].content = file.text
           /\ chunks[1].start_byte = 0 /\ chunks[1].end_byte = file.size
           /\ \A k \in 1..Len(defs) :
                 k + 1 \in DOMAIN chunks
                 => /\ chunks[k + 1].chunk_type
                          = (IF IsFunctionNode(defs[k]) THEN "function" ELSE "class")
                    /\ chunks[k + 1].content = defs[k].text
                    /\ chunks[k + 1].start_byte = defs[k].start_byte
                    /\ chunks[k + 1].end_byte = defs[k].end_byte

\* C24: every hit that a search of a registered name returns has a stored file path
\* under the root path that the registry holds for that name at that time.
C24_NoCrossCollectionLeakage ==
    \A n \in Names :
       (/\ response.op = "search" /\ response.repo_name = n
        /\ response.status_code = 200
        /\ n \in DOMAIN REPO_CONFIGS /\ IsConfigDict(REPO_CONFIGS[n]))
       => \A hit \in response.hits : hit.file_path[1] = REPO_CONFIGS[n].path

====
